---- MODULE Spec2Model ----
(***************************************************************************)
(* The conversational turn processor (UserConversationProcessor) of the    *)
(* worker: one call of execute, the inference engine it awaits, the tool   *)
(* lifecycle hooks and the notification callback.                          *)
(*                                                                         *)
(* Text is modelled by TLA+ strings: \o is string concatenation and Len    *)
(* the length in characters.  An optional value (the callback's fourth     *)
(* argument, a missing result) is a sequence of length 0 or 1.             *)
(***************************************************************************)
EXTENDS Integers, Sequences, FiniteSets, TLC

\* ------------------------------------------------------------------ bounds

\* The engine produces at most this many deltas in one turn.
MaxChunks == 2
\* The engine makes at most this many tool calls in one turn.
MaxToolCalls == 2
\* The bridge is followed for at most this many memo entries.
MaxUpdates == 2
\* The caller's transcript is followed up to this many entries.
MaxTranscript == 5
\* The app service is followed for this many requests.
MaxCalls == 3

\* ------------------------------------------------------------- input sets

FALLBACK_USER_RESPONSE == "I understand you'd like to make some changes to your project. Let me make sure this is incorporated in the next phase of development."

SYSTEM_PROMPT == "You are an AI assistant for Cloudflare's development platform"

\* The project context merged into the system preamble.
ProjectContext == "{{query}} = a todo app"

UserMessages == {"hi", "Make the header blue"}

\* The deltas the engine may stream.  The canned fallback sentence is one of
\* them: nothing stops the model from saying it.
Chunks == {"Sure. ", FALLBACK_USER_RESPONSE}

ModificationRequests == {"Add A feature", "Add B feature"}

\* A request the model may try that is shorter than the schema's minLength.
ShortRequests == {"Fix it"}

FatalErrors == {"RateLimitExceededError", "SecurityError"}
ErrorClasses == FatalErrors \cup {"Error"}

\* The calls of execute that run at the same time on one processor.
ConcurrentTurns == {1, 2}

\* The requests the worker serves at the same time.
Procs == {1, 2}

\* The users: u1 and u2 make requests, u3 only has rows.
Users == {"u1", "u2", "u3"}

\* The app ids: a1 and its fork a2 have rows, a9 never had one.
AppIds == {"a1", "a2", "a9"}

\* The owner of each app that has a row.
InitialApps ==
    [a \in AppIds |->
        IF a = "a1" THEN << [userId |-> "u1", parentAppId |-> "null"] >>
        ELSE IF a = "a2" THEN << [userId |-> "u2", parentAppId |-> "a1"] >>
        ELSE <<>>]

\* The rows of favorites, stars and appViews the requests find.
InitialFavorites ==
    [k \in Users \X AppIds |->
        IF k \in {<< "u2", "a1" >>, << "u3", "a1" >>} THEN 1 ELSE 0]
InitialStars == {<< "u2", "a1" >>, << "u1", "a2" >>}
InitialAppViews == {<< "u3", "a1" >>}

\* The calls of deleteApp(appId, userId) that are made: by the owner, by
\* another user, and for an app that does not exist.
DeleteAppCalls ==
    { [appId |-> "a1", userId |-> "u1"],
      [appId |-> "a1", userId |-> "u2"],
      [appId |-> "a9", userId |-> "u1"] }

\* The requests to toggle a favorite that are made: context.user.id and
\* context.pathParams.id.
ToggleFavoriteCalls ==
    { [appId |-> "a1", userId |-> "u2"],
      [appId |-> "a9", userId |-> "u2"] }

\* The transcripts a turn may start from; their identifiers were generated
\* before the turn.
PastTranscripts ==
    { <<>>,
      << [role |-> "user", content |-> "hello", conversationId |-> 1],
         [role |-> "tool", content |-> "sunny", conversationId |-> 2],
         [role |-> "assistant", content |-> "Hi!", conversationId |-> 3] >> }

\* The first identifier the generator hands out in the turn.
FirstFreshId == 4

VARIABLES
    pc,                        \* where execute is: idle, inference, toolStarted, toolExecuted, done
    userMessage,               \* inputs.userMessage
    pastMessages,              \* inputs.pastMessages
    messages,                  \* the local messages array of execute
    extractedUserResponse,     \* let extractedUserResponse
    extractedEnhancedRequest,  \* let extractedEnhancedRequest
    aiConversationId,          \* const aiConversationId (0 before it is generated)
    nextId,                    \* IdGenerator: the next identifier it returns
    inferenceArgs,             \* what executeInference was called with, one entry per call
    events,                    \* the calls of inputs.conversationResponseCallback, in order
    engineDeltas,              \* the deltas the engine has produced, in order
    currentCall,               \* the tool call the engine is in: <<>> or <<[tool, args]>>
    invocations,               \* the tool implementations the engine has run, in order
    hookLog,                   \* the hooks the engine has called, in order
    raised,                    \* the error raised in the turn: <<>> or <<[class, step]>>
    outcome,                   \* none, success, fallback, thrown
    output,                    \* what execute returned: <<>> or <<[conversationResponse, messages]>>
    thrown,                    \* what execute threw: <<>> or <<class>>
    messagesRef,               \* the array object `messages` names: none, copy, caller
    returnedRef,               \* the array object execute returned: none, copy, literal, caller
    pastAtEntry,               \* the caller's pastMessages as it was when execute was called
    rejectedCalls,             \* the tool calls the engine refused on their arguments, in order
    mutatorCalls,              \* the arguments stateMutator was called with, in order
    toolResults,               \* what the tool implementations returned, in order
    cells,                     \* concurrent calls of execute: each cell holds one pair of
                               \* the closure variables extractedUserResponse, extractedEnhancedRequest
    turns,                     \* concurrent calls of execute: each call's position, the chunks
                               \* and requests its engine call produced, and what it returned
    lastCheck,                 \* the call of isProjectUpdateType the last bridge operation made:
                               \* <<>> or <<[type, result]>>
    bridgeCall,                \* the call of processProjectUpdates the last bridge operation
                               \* made, and after it the call before when that was for the same
                               \* kind: <<>> or <<[updateType,
                               \* data, failure, loggerErrorThrows, returned, thrown]>>
    transcript,                \* the conversation the caller keeps from turn to turn
    apps,                      \* table apps: for each app id, <<>> or <<[userId, parentAppId]>>
    favorites,                 \* table favorites: the number of rows for each <<userId, appId>>
    stars,                     \* table stars: the <<userId, appId>> that have a row
    appViews,                  \* table appViews: the <<userId, appId>> that have a row
    procs,                     \* the requests in progress: each one's operation, arguments,
                               \* position, what it read, and its result
    callsMade                  \* the calls of deleteApp and toggleFavorite begun so far

\* The variables of one call of execute, the identifier generator apart.
turnLocals == << pc, userMessage, pastMessages, messages, extractedUserResponse,
           extractedEnhancedRequest, aiConversationId, inferenceArgs,
           events, engineDeltas, currentCall, invocations, hookLog, raised,
           outcome, output, thrown, messagesRef, returnedRef, pastAtEntry,
           rejectedCalls, mutatorCalls, toolResults >>

\* The variables of one call of execute.
turnVars == << turnLocals, nextId >>

\* The variables of the calls of execute that run concurrently.
concurrentVars == << cells, turns >>

\* The variables of the pipeline-event bridge and of the caller's transcript.
bridgeVars == << lastCheck, bridgeCall >>

\* The tables of the database.
tables == << apps, favorites, stars, appViews >>

\* The variables of the app service and its requests.
appVars == << tables, procs, callsMade >>

vars == << turnVars, concurrentVars, bridgeVars, transcript, appVars >>

\* What an action of one specification leaves alone: the variables of the others.
outsideTurn == << concurrentVars, bridgeVars, transcript, appVars >>
outsideConcurrent == << turnVars, bridgeVars, transcript, appVars >>
outsideBridge == << turnLocals, concurrentVars, transcript, appVars >>
outsideCaller == << concurrentVars, bridgeVars, appVars >>
outsideApps == << turnVars, concurrentVars, bridgeVars, transcript >>

\* ---------------------------------------------------------------- helpers

RECURSIVE Concat(_)
\* The concatenation of a sequence of strings.
Concat(ss) == IF ss = <<>> THEN "" ELSE Head(ss) \o Concat(Tail(ss))

\* inferutils/common: the message constructors.
createUserMessage(message) == [role |-> "user", content |-> message]
createAssistantMessage(message) == [role |-> "assistant", content |-> message]

\* {...message, conversationId: IdGenerator.generateConversationId()}
WithConversationId(m, id) ==
    [role |-> m.role, content |-> m.content, conversationId |-> id]

\* getSystemPromptWithProjectContext(SYSTEM_PROMPT, context, false)
getSystemPromptWithProjectContext(prompt, context) ==
    << [role |-> "system", content |-> prompt \o context] >>

\* ------------------------------------------------------------------ tools

\* tools/toolkit/web-search and tools/toolkit/weather: the two host tools.
toolWebSearchDefinition ==
    [name |-> "web_search", description |-> "Search the web",
     parameters |-> [required |-> "query", minLength |-> 0, additionalProperties |-> TRUE],
     implementation |-> "web_search"]

toolWeatherDefinition ==
    [name |-> "get_weather", description |-> "Get the weather",
     parameters |-> [required |-> "location", minLength |-> 0, additionalProperties |-> TRUE],
     implementation |-> "get_weather"]

\* A variant whose schema states no minimum length.
buildEditAppTool_NoMinLength ==
    [name |-> "queue_request",
     description |-> "Queue up modification requests or changes, to be implemented in the next development phase",
     parameters |-> [required |-> "modificationRequest", minLength |-> 0, additionalProperties |-> FALSE],
     implementation |-> "stateMutator"]

\* buildEditAppTool(stateMutator): the queue_request tool; its implementation
\* calls the state mutator it was built with.
buildEditAppTool ==
    [name |-> "queue_request",
     description |-> "Queue up modification requests or changes, to be implemented in the next development phase",
     parameters |-> [required |-> "modificationRequest", minLength |-> 8, additionalProperties |-> FALSE],
     implementation |-> "stateMutator"]

\* What a host tool returns.
HostToolResult == [content |-> "tool output"]

\* The result every queue_request invocation returns.
EditAppResult == [content |-> "Modification request queued successfully, will be implemented in the next phase of development."]

\* A variant that also replaces the implementation, with one that does nothing.
attachLifecycle_NoOpImplementation(td) ==
    [name |-> td.name, description |-> td.description, parameters |-> td.parameters,
     implementation |-> "noop", onStart |-> TRUE, onComplete |-> TRUE]

\* attachLifecycle(td): {...td, onStart, onComplete}.
attachLifecycle(td) ==
    [name |-> td.name, description |-> td.description, parameters |-> td.parameters,
     implementation |-> td.implementation, onStart |-> TRUE, onComplete |-> TRUE]

\* const tools = [...]
tools ==
    << attachLifecycle(toolWebSearchDefinition),
       attachLifecycle(toolWeatherDefinition),
       attachLifecycle(buildEditAppTool) >>

\* The arguments the engine may call a tool with.
ToolArgs(td) ==
    IF td.name = "queue_request"
    THEN { [modificationRequest |-> r] : r \in ModificationRequests \cup ShortRequests }
    ELSE IF td.name = "web_search" THEN { [query |-> "cats"] }
    ELSE { [location |-> "Paris"] }

\* The engine's check of a call's arguments against the tool's schema, made
\* before it calls any hook or the implementation.
SchemaAccepts(td, args) ==
    IF td.parameters.required = "modificationRequest"
    THEN Len(args.modificationRequest) >= td.parameters.minLength
    ELSE TRUE

\* A variant that never calls the state mutator.
implementationMutatorCalls_None(args) == <<>>

\* implementation: stateMutator(args.modificationRequest), the calls of the
\* state mutator one invocation makes.
implementationMutatorCalls(args) == << args.modificationRequest >>

\* A variant that echoes the request in its result.
implementationResult_Echo(args) == [content |-> args.modificationRequest]

\* implementation: return {content: "Modification request queued successfully, ..."}
implementationResult(args) == EditAppResult

\* A variant that generates an identifier of its own for the notification.
onStart_OwnId(td, args) ==
    [message |-> "", conversationId |-> nextId, isStreaming |-> FALSE,
     tool |-> << [name |-> td.name, status |-> "start", args |-> args] >>]

\* The arguments of one call of inputs.conversationResponseCallback made by
\* the onStart hook of the wrapped td.
onStart(td, args) ==
    [message |-> "", conversationId |-> aiConversationId, isStreaming |-> FALSE,
     tool |-> << [name |-> td.name, status |-> "start", args |-> args] >>]

\* A variant copied from onStart with its status left as it was.
onComplete_StatusStart(td, args) ==
    [message |-> "", conversationId |-> aiConversationId, isStreaming |-> FALSE,
     tool |-> << [name |-> td.name, status |-> "start", args |-> args] >>]

\* A variant that reports every completion with the schema's third status.
onComplete_StatusError(td, args) ==
    [message |-> "", conversationId |-> aiConversationId, isStreaming |-> FALSE,
     tool |-> << [name |-> td.name, status |-> "error", args |-> args] >>]

\* The same for the onComplete hook.
onComplete(td, args) ==
    [message |-> "", conversationId |-> aiConversationId, isStreaming |-> FALSE,
     tool |-> << [name |-> td.name, status |-> "success", args |-> args] >>]

\* A variant that sends the text accumulated so far with each chunk.
onChunkNotification_Accumulated(chunk) ==
    [message |-> extractedUserResponse \o chunk, conversationId |-> aiConversationId,
     isStreaming |-> TRUE, tool |-> <<>>]

\* The arguments of the callback call onChunk makes.
onChunkNotification(chunk) ==
    [message |-> chunk, conversationId |-> aiConversationId, isStreaming |-> TRUE,
     tool |-> <<>>]

\* A variant that keeps only the latest chunk.
onChunkAccumulate_Overwrite(response, chunk) == chunk

\* extractedUserResponse += chunk
onChunkAccumulate(response, chunk) == response \o chunk

\* A variant that keeps the first request of the turn.
stateMutator_FirstWins(current, modificationRequest) ==
    IF current = "" THEN modificationRequest ELSE current

\* The state mutator given to buildEditAppTool: the new value of
\* extractedEnhancedRequest.
stateMutator(current, modificationRequest) == modificationRequest

RECURSIVE ApplyMutator(_, _)
\* The value of extractedEnhancedRequest after the given calls of stateMutator.
ApplyMutator(current, calls) ==
    IF calls = <<>> THEN current
    ELSE ApplyMutator(stateMutator(current, Head(calls)), Tail(calls))

\* ------------------------------------------------------- execute's results

\* A variant that puts the new user entry before the history.
NewMessages_Prepend(past, message, id) ==
    << WithConversationId(createUserMessage(message), id) >> \o past

\* const messages = [...pastMessages, {...createUserMessage(userMessage), conversationId}]
NewMessages(past, message, id) ==
    Append(past, WithConversationId(createUserMessage(message), id))

\* A variant that puts the preamble after the conversation.
InferenceMessages_PreambleLast(systemPrompts, conversation) == conversation \o systemPrompts

\* messages: [...systemPrompts, ...messages], the list given to executeInference
InferenceMessages(systemPrompts, conversation) == systemPrompts \o conversation

\* A variant that takes the caller's array itself: const messages = pastMessages.
MessagesArray_Alias == "caller"

\* The array object [...pastMessages, {...}] evaluates to: a new array, a
\* shallow copy of the caller's.
MessagesArray == "copy"

\* The array object the fallback's messages: [...] evaluates to: a new array.
FallbackArray == "literal"

\* A variant that answers with the canned text when nothing was streamed.
conversationResponse_CannedWhenEmpty ==
    [enhancedUserRequest |-> extractedEnhancedRequest,
     userResponse |-> IF extractedUserResponse = "" THEN FALLBACK_USER_RESPONSE
                      ELSE extractedUserResponse]

\* const conversationResponse = {enhancedUserRequest, userResponse}
conversationResponse ==
    [enhancedUserRequest |-> extractedEnhancedRequest,
     userResponse |-> extractedUserResponse]

\* The engine's final completion: result.string.  The engine returns the text
\* it streamed.
EngineResult == [string |-> Concat(engineDeltas)]

\* A variant that returns without pushing the assistant entry.
SuccessOutput_NoPush(result, id) ==
    [conversationResponse |-> conversationResponse, messages |-> messages]

\* A variant that saves the captured request as the assistant entry.
SuccessOutput_SavesRequest(result, id) ==
    [conversationResponse |-> conversationResponse,
     messages |-> Append(messages,
        WithConversationId(createAssistantMessage(extractedEnhancedRequest), id))]

\* A variant that saves the assistant entry under the turn's streaming identifier.
SuccessOutput_ReusesTurnId(result, id) ==
    [conversationResponse |-> conversationResponse,
     messages |-> Append(messages,
        WithConversationId(createAssistantMessage(result.string), aiConversationId))]

\* messages.push({...createAssistantMessage(result.string), conversationId});
\* return {conversationResponse, messages}
SuccessOutput(result, id) ==
    [conversationResponse |-> conversationResponse,
     messages |-> Append(messages, WithConversationId(createAssistantMessage(result.string), id))]

\* A variant that prefers the request captured before the error.
FallbackOutput_KeepsCaptured(id) ==
    [conversationResponse |->
        [enhancedUserRequest |->
            IF extractedEnhancedRequest # "" THEN extractedEnhancedRequest
            ELSE "User request: " \o userMessage,
         userResponse |-> FALLBACK_USER_RESPONSE],
     messages |->
        pastMessages \o
        << WithConversationId(createUserMessage(userMessage), id),
           WithConversationId(createAssistantMessage(FALLBACK_USER_RESPONSE), id + 1) >>]

\* A variant that returns the two new entries without the entries before them.
FallbackOutput_DropsPast(id) ==
    [conversationResponse |->
        [enhancedUserRequest |-> "User request: " \o userMessage,
         userResponse |-> FALLBACK_USER_RESPONSE],
     messages |->
        << WithConversationId(createUserMessage(userMessage), id),
           WithConversationId(createAssistantMessage(FALLBACK_USER_RESPONSE), id + 1) >>]

\* The fallback of the catch block.
FallbackOutput(id) ==
    [conversationResponse |->
        [enhancedUserRequest |-> "User request: " \o userMessage,
         userResponse |-> FALLBACK_USER_RESPONSE],
     messages |->
        pastMessages \o
        << WithConversationId(createUserMessage(userMessage), id),
           WithConversationId(createAssistantMessage(FALLBACK_USER_RESPONSE), id + 1) >>]

\* A variant that tests for one of the two classes only.
IsFatal_RateLimitOnly(error) == error = "RateLimitExceededError"

\* error instanceof RateLimitExceededError || error instanceof SecurityError
IsFatal(error) == error \in FatalErrors

\* A variant that throws a new generic error.
Rethrown_Generic(error) == "Error"

\* throw error
Rethrown(error) == error

\* A variant whose catch block calls the engine once more with the same arguments.
CatchEngineCalls_Retry(calls) == Append(calls, calls[Len(calls)])

\* The engine calls of the turn once the catch block has run after a failure
\* of executeInference: the block makes none.
CatchEngineCalls(calls) == calls

\* catch (error): an error of class `error` raised at `step` ends the turn.
\* userMessage is the catch block's: an action that sets it passes its value.
Catch(error, step) ==
    /\ raised' = << [class |-> error, step |-> step] >>
    /\ pc' = "done"
    /\ IF IsFatal(error)
       THEN /\ outcome' = "thrown"
            /\ thrown' = << Rethrown(error) >>
            /\ UNCHANGED << output, nextId, returnedRef >>
       ELSE /\ outcome' = "fallback"
            /\ output' = << FallbackOutput(nextId) >>
            /\ returnedRef' = FallbackArray
            /\ nextId' = nextId + 2
            /\ UNCHANGED thrown

NotCaught == UNCHANGED << raised, outcome, output, thrown, returnedRef >>

\* ---------------------------------------------------------------- actions

\* No call of execute runs concurrently.
ConcurrentIdle ==
    /\ cells = [c \in ConcurrentTurns |-> [response |-> "", request |-> ""]]
    /\ turns = [t \in ConcurrentTurns |->
                  [pc |-> "idle", chunks |-> <<>>, requests |-> <<>>, response |-> <<>>]]

\* execute is about to be called with userMessage um and pastMessages past.
TurnInit(um, past) ==
    /\ pc = "idle"
    /\ userMessage = um
    /\ pastMessages = past
    /\ messages = <<>>
    /\ extractedUserResponse = ""
    /\ extractedEnhancedRequest = ""
    /\ aiConversationId = 0
    /\ nextId = FirstFreshId
    /\ inferenceArgs = <<>>
    /\ events = <<>>
    /\ engineDeltas = <<>>
    /\ currentCall = <<>>
    /\ invocations = <<>>
    /\ hookLog = <<>>
    /\ raised = <<>>
    /\ outcome = "none"
    /\ output = <<>>
    /\ thrown = <<>>
    /\ messagesRef = "none"
    /\ returnedRef = "none"
    /\ pastAtEntry = pastMessages
    /\ rejectedCalls = <<>>
    /\ mutatorCalls = <<>>
    /\ toolResults = <<>>

\* The database as the requests find it, and no request in progress.
\* u2 and u3 have a1 among their favorites; a1 has a star and a view.
DatabaseInit ==
    /\ apps = InitialApps
    /\ favorites = InitialFavorites
    /\ stars = InitialStars
    /\ appViews = InitialAppViews
    /\ procs = [p \in Procs |->
                  [op |-> "none", appId |-> "", userId |-> "", pc |-> "idle",
                   existing |-> FALSE, statusAtStart |-> FALSE, alone |-> FALSE,
                   chain |-> <<>>, prev |-> <<>>, result |-> <<>>]]
    /\ callsMade = 0

\* The bridge has not been called.
BridgeIdle ==
    /\ lastCheck = <<>>
    /\ bridgeCall = <<>>

Init ==
    /\ \E um \in UserMessages : \E past \in PastTranscripts : TurnInit(um, past)
    /\ ConcurrentIdle
    /\ BridgeIdle
    /\ transcript = pastMessages
    /\ DatabaseInit

\* execute, from its entry to the await of executeInference.
execute ==
    /\ pc = "idle"
    /\ \/ \* getSystemPromptWithProjectContext throws
          /\ \E e \in ErrorClasses : Catch(e, "promptAssembly")
          /\ UNCHANGED << userMessage, pastMessages, messages, extractedUserResponse,
                          extractedEnhancedRequest, aiConversationId, inferenceArgs,
                          events, engineDeltas, currentCall, invocations, hookLog,
                          messagesRef >>
       \/ /\ messages' = NewMessages(pastMessages, userMessage, nextId)
          /\ messagesRef' = MessagesArray
          \* a write through `messages` is a write to the array it names
          /\ pastMessages' = IF messagesRef' = "caller" THEN messages' ELSE pastMessages
          /\ extractedUserResponse' = ""
          /\ extractedEnhancedRequest' = ""
          /\ aiConversationId' = nextId + 1
          /\ nextId' = nextId + 2
          /\ inferenceArgs' = Append(inferenceArgs,
                [messages |-> InferenceMessages(
                                  getSystemPromptWithProjectContext(SYSTEM_PROMPT, ProjectContext),
                                  messages'),
                 tools |-> tools])
          /\ pc' = "inference"
          /\ UNCHANGED << userMessage, events, engineDeltas, currentCall,
                          invocations, hookLog, raised, outcome, output, thrown,
                          returnedRef >>
    /\ UNCHANGED << pastAtEntry, rejectedCalls, mutatorCalls, toolResults >>
    /\ UNCHANGED outsideTurn

\* stream.onChunk(chunk): the engine streams one delta.
onChunk ==
    /\ pc = "inference"
    /\ Len(engineDeltas) < MaxChunks
    /\ \E chunk \in Chunks :
         /\ engineDeltas' = Append(engineDeltas, chunk)
         /\ events' = Append(events, onChunkNotification(chunk))
         /\ \/ \* the callback returns
               /\ extractedUserResponse' = onChunkAccumulate(extractedUserResponse, chunk)
               /\ NotCaught
               /\ UNCHANGED << pc, nextId >>
            \/ \* the callback throws
               /\ \E e \in ErrorClasses : Catch(e, "callback")
               /\ UNCHANGED extractedUserResponse
    /\ UNCHANGED << userMessage, pastMessages, messages, extractedEnhancedRequest,
                    aiConversationId, inferenceArgs, currentCall, invocations, hookLog,
                    messagesRef, pastAtEntry, rejectedCalls, mutatorCalls, toolResults >>
    /\ UNCHANGED outsideTurn

\* The tool calls the engine has begun in the turn.
ToolCallsBegun == Len(SelectSeq(hookLog, LAMBDA h : h.hook = "onStart"))

\* The engine begins a tool call: it calls the tool's onStart hook.
toolOnStart ==
    /\ pc = "inference"
    /\ ToolCallsBegun + Len(rejectedCalls) < MaxToolCalls
    /\ \E i \in DOMAIN tools : \E args \in ToolArgs(tools[i]) :
         /\ SchemaAccepts(tools[i], args)
         /\ tools[i].onStart
         /\ currentCall' = << [tool |-> tools[i], args |-> args] >>
         /\ hookLog' = Append(hookLog, [hook |-> "onStart", name |-> tools[i].name, args |-> args])
         /\ events' = Append(events, onStart(tools[i], args))
    /\ \/ /\ pc' = "toolStarted"
          /\ NotCaught
          /\ UNCHANGED nextId
       \/ \E e \in ErrorClasses : Catch(e, "callback")
    /\ UNCHANGED << userMessage, pastMessages, messages, extractedUserResponse,
                    extractedEnhancedRequest, aiConversationId, inferenceArgs,
                    engineDeltas, invocations, messagesRef, pastAtEntry,
                    rejectedCalls, mutatorCalls, toolResults >>
    /\ UNCHANGED outsideTurn

\* The engine runs the tool's implementation.
implementation ==
    /\ pc = "toolStarted"
    /\ LET call == currentCall[1] IN
         /\ invocations' = Append(invocations, [name |-> call.tool.name, args |-> call.args])
         /\ \/ \* buildEditAppTool's implementation: it calls the mutator and returns
               /\ call.tool.implementation = "stateMutator"
               /\ mutatorCalls' = mutatorCalls \o implementationMutatorCalls(call.args)
               /\ extractedEnhancedRequest' =
                     ApplyMutator(extractedEnhancedRequest, implementationMutatorCalls(call.args))
               /\ toolResults' = Append(toolResults,
                     [name |-> call.tool.name, result |-> implementationResult(call.args)])
               /\ pc' = "toolExecuted"
               /\ NotCaught
               /\ UNCHANGED nextId
            \/ \* a host tool's implementation returns
               /\ call.tool.implementation # "stateMutator"
               /\ toolResults' = Append(toolResults,
                     [name |-> call.tool.name, result |-> HostToolResult])
               /\ pc' = "toolExecuted"
               /\ NotCaught
               /\ UNCHANGED << nextId, extractedEnhancedRequest, mutatorCalls >>
            \/ \* a host tool's implementation throws
               /\ call.tool.implementation # "stateMutator"
               /\ \E e \in ErrorClasses : Catch(e, "tool")
               /\ UNCHANGED << extractedEnhancedRequest, mutatorCalls, toolResults >>
    /\ UNCHANGED << userMessage, pastMessages, messages, extractedUserResponse,
                    aiConversationId, inferenceArgs, events, engineDeltas, currentCall,
                    hookLog, messagesRef, pastAtEntry, rejectedCalls >>
    /\ UNCHANGED outsideTurn

\* The engine refuses a tool call whose arguments its schema does not
\* accept: no hook and no implementation runs.
engineRejectsToolCall ==
    /\ pc = "inference"
    /\ ToolCallsBegun + Len(rejectedCalls) < MaxToolCalls
    /\ \E i \in DOMAIN tools : \E args \in ToolArgs(tools[i]) :
         /\ ~SchemaAccepts(tools[i], args)
         /\ rejectedCalls' = Append(rejectedCalls, [name |-> tools[i].name, args |-> args])
    /\ UNCHANGED << pc, userMessage, pastMessages, messages, extractedUserResponse,
                    extractedEnhancedRequest, aiConversationId, nextId, inferenceArgs,
                    events, engineDeltas, currentCall, invocations, hookLog, raised,
                    outcome, output, thrown, messagesRef, returnedRef, pastAtEntry,
                    mutatorCalls, toolResults >>
    /\ UNCHANGED outsideTurn

\* The engine ends the tool call: it calls the tool's onComplete hook.
toolOnComplete ==
    /\ pc = "toolExecuted"
    /\ LET call == currentCall[1] IN
         /\ call.tool.onComplete
         /\ hookLog' = Append(hookLog, [hook |-> "onComplete", name |-> call.tool.name, args |-> call.args])
         /\ events' = Append(events, onComplete(call.tool, call.args))
    /\ currentCall' = <<>>
    /\ \/ /\ pc' = "inference"
          /\ NotCaught
          /\ UNCHANGED nextId
       \/ \E e \in ErrorClasses : Catch(e, "callback")
    /\ UNCHANGED << userMessage, pastMessages, messages, extractedUserResponse,
                    extractedEnhancedRequest, aiConversationId, inferenceArgs,
                    engineDeltas, invocations, messagesRef, pastAtEntry,
                    rejectedCalls, mutatorCalls, toolResults >>
    /\ UNCHANGED outsideTurn

\* executeInference resolves; execute packages the result and returns.
executeInferenceReturns ==
    /\ pc = "inference"
    /\ output' = << SuccessOutput(EngineResult, nextId) >>
    /\ messages' = output'[1].messages
    /\ pastMessages' = IF messagesRef = "caller" THEN messages' ELSE pastMessages
    /\ returnedRef' = messagesRef
    /\ nextId' = nextId + 1
    /\ outcome' = "success"
    /\ pc' = "done"
    /\ UNCHANGED << userMessage, extractedUserResponse,
                    extractedEnhancedRequest, aiConversationId, inferenceArgs, events,
                    engineDeltas, currentCall, invocations, hookLog, raised, thrown,
                    messagesRef, pastAtEntry, rejectedCalls, mutatorCalls, toolResults >>
    /\ UNCHANGED outsideTurn

\* executeInference rejects: the engine itself fails.
executeInferenceThrows ==
    /\ pc = "inference"
    /\ \E e \in ErrorClasses : Catch(e, "engine")
    /\ inferenceArgs' = CatchEngineCalls(inferenceArgs)
    /\ UNCHANGED << userMessage, pastMessages, messages, extractedUserResponse,
                    extractedEnhancedRequest, aiConversationId, events,
                    engineDeltas, currentCall, invocations, hookLog, messagesRef,
                    pastAtEntry, rejectedCalls, mutatorCalls, toolResults >>
    /\ UNCHANGED outsideTurn

Next ==
    \/ execute
    \/ onChunk
    \/ toolOnStart
    \/ engineRejectsToolCall
    \/ implementation
    \/ toolOnComplete
    \/ executeInferenceReturns
    \/ executeInferenceThrows

Spec == Init /\ [][Next]_vars

\* ------------------------------------------------- concurrent calls of execute

\* Several calls of execute run on one processor and interleave at the steps
\* of their engine calls.  Each call is followed through what its captured
\* state depends on: the let declarations, onChunk, the queue_request
\* implementation and the success return.

\* A variant that declares the two variables once, outside execute.
CaptureCell_Shared(t) == 1

\* let extractedUserResponse = ""; let extractedEnhancedRequest = "": the
\* variables are declared inside execute, so call t has a pair of its own.
CaptureCell(t) == t

\* Call t of execute runs to its await: its variables are initialised.
concurrentExecute(t) ==
    /\ turns[t].pc = "idle"
    /\ cells' = [cells EXCEPT ![CaptureCell(t)] = [response |-> "", request |-> ""]]
    /\ turns' = [turns EXCEPT ![t].pc = "inference"]
    /\ UNCHANGED outsideConcurrent

\* The engine call of t streams a delta: onChunk of t's closure.
concurrentOnChunk(t) ==
    /\ turns[t].pc = "inference"
    /\ Len(turns[t].chunks) < MaxChunks
    /\ \E chunk \in Chunks :
         /\ cells' = [cells EXCEPT ![CaptureCell(t)].response =
                         onChunkAccumulate(cells[CaptureCell(t)].response, chunk)]
         /\ turns' = [turns EXCEPT ![t].chunks = Append(@, chunk)]
    /\ UNCHANGED outsideConcurrent

\* The engine call of t runs queue_request: the implementation built in t.
concurrentImplementation(t) ==
    /\ turns[t].pc = "inference"
    /\ Len(turns[t].requests) < MaxToolCalls
    /\ \E r \in ModificationRequests :
         /\ cells' = [cells EXCEPT ![CaptureCell(t)].request =
                         ApplyMutator(cells[CaptureCell(t)].request,
                                      implementationMutatorCalls([modificationRequest |-> r]))]
         /\ turns' = [turns EXCEPT ![t].requests = Append(@, r)]
    /\ UNCHANGED outsideConcurrent

\* The engine call of t resolves: t packages conversationResponse and returns.
concurrentReturn(t) ==
    /\ turns[t].pc = "inference"
    /\ turns' = [turns EXCEPT
                    ![t].pc = "done",
                    ![t].response =
                        << [enhancedUserRequest |-> cells[CaptureCell(t)].request,
                            userResponse |-> cells[CaptureCell(t)].response] >>]
    /\ UNCHANGED cells
    /\ UNCHANGED outsideConcurrent

InitConcurrent ==
    /\ TurnInit("hi", <<>>)
    /\ ConcurrentIdle
    /\ BridgeIdle
    /\ transcript = <<>>
    /\ DatabaseInit

NextConcurrent ==
    \E t \in ConcurrentTurns :
        \/ concurrentExecute(t)
        \/ concurrentOnChunk(t)
        \/ concurrentImplementation(t)
        \/ concurrentReturn(t)

SpecConcurrent == InitConcurrent /\ [][NextConcurrent]_vars

\* -------------------------------------------------- the pipeline-event bridge

\* constants: the kinds of websocket message the bridge is asked about.  The
\* first seven are the milestones; the others are kinds of the same feed.
WebSocketMessageResponses ==
    [PHASE_IMPLEMENTING |-> "phase_implementing",
     PHASE_IMPLEMENTED |-> "phase_implemented",
     CODE_REVIEW |-> "code_review",
     FILE_REGENERATING |-> "file_regenerating",
     FILE_REGENERATED |-> "file_regenerated",
     DEPLOYMENT_COMPLETED |-> "deployment_completed",
     COMMAND_EXECUTING |-> "command_executing",
     GENERATION_STARTED |-> "generation_started",
     FILE_GENERATED |-> "file_generated"]

RelevantProjectUpdateWebsoketMessages ==
    << WebSocketMessageResponses.PHASE_IMPLEMENTING,
       WebSocketMessageResponses.PHASE_IMPLEMENTED,
       WebSocketMessageResponses.CODE_REVIEW,
       WebSocketMessageResponses.FILE_REGENERATING,
       WebSocketMessageResponses.FILE_REGENERATED,
       WebSocketMessageResponses.DEPLOYMENT_COMPLETED,
       WebSocketMessageResponses.COMMAND_EXECUTING >>

\* The values isProjectUpdateType and processProjectUpdates are called with.
KindInputs ==
    { WebSocketMessageResponses[f] : f \in DOMAIN WebSocketMessageResponses }
        \cup {"", "PHASE_IMPLEMENTING", "phase"}

\* The payloads of the milestone events.
Payloads == {"{phase: 1, files: [a.ts]}", "{phase: 2, files: [secret.ts]}"}

RECURSIVE IndexOf(_, _, _)
\* Array.prototype.indexOf, from position i (0-based; -1 when absent).
IndexOf(array, value, i) ==
    IF i >= Len(array) THEN -1
    ELSE IF array[i + 1] = value THEN i
    ELSE IndexOf(array, value, i + 1)

\* Array.prototype.includes
Includes(array, value) == IndexOf(array, value, 0) # -1

\* A variant that tests the index as a truth value: indexOf(type) > 0.
isProjectUpdateType_IndexTruthy(type) ==
    IndexOf(RelevantProjectUpdateWebsoketMessages, type, 0) > 0

\* isProjectUpdateType(type)
isProjectUpdateType(type) == Includes(RelevantProjectUpdateWebsoketMessages, type)

\* A variant that writes the memo without the kind.
PreparedMessage_NoKind(updateType) ==
    "**<Internal Memo>**\nProject Updates: \n</Internal Memo>"

\* const preparedMessage = `**<Internal Memo>** Project Updates: ${updateType} </Internal Memo>`
PreparedMessage(updateType) ==
    "**<Internal Memo>**\nProject Updates: " \o updateType \o "\n</Internal Memo>"

\* A variant that appends the payload to the memo.
processProjectUpdatesReturn_WithPayload(updateType, data, id) ==
    << [role |-> "assistant", content |-> PreparedMessage(updateType) \o data,
        conversationId |-> id] >>

\* A variant that checks the kind itself and returns nothing for the others.
processProjectUpdatesReturn_Validates(updateType, data, id) ==
    IF isProjectUpdateType(updateType)
    THEN << [role |-> "assistant", content |-> PreparedMessage(updateType),
             conversationId |-> id] >>
    ELSE <<>>

\* return [{role: 'assistant', content: preparedMessage, conversationId}]
processProjectUpdatesReturn(updateType, data, id) ==
    << [role |-> "assistant", content |-> PreparedMessage(updateType),
        conversationId |-> id] >>

\* The steps of the try block that may fail.
BridgeFailures == {"none", "logger.info", "generateConversationId"}

\* What one call of processProjectUpdates gives its caller: the try block's
\* return; or, a step of the try block having failed, the catch block's:
\* logger.error and then the return of [], unless logger.error throws too.
processProjectUpdatesOutcome(updateType, data, failure, loggerErrorThrows, id) ==
    IF failure = "none"
    THEN [returned |-> << processProjectUpdatesReturn(updateType, data, id) >>, thrown |-> <<>>]
    ELSE IF loggerErrorThrows
    THEN [returned |-> <<>>, thrown |-> << "Error" >>]
    ELSE [returned |-> << <<>> >>, thrown |-> <<>>]

\* The identifiers one call takes from the generator.
BridgeIdsTaken(failure) == IF failure = "none" THEN 1 ELSE 0

\* A call of isProjectUpdateType.
isProjectUpdateTypeCall ==
    /\ \E type \in KindInputs :
         lastCheck' = << [type |-> type, result |-> isProjectUpdateType(type)] >>
    /\ bridgeCall' = <<>>
    /\ UNCHANGED nextId
    /\ UNCHANGED outsideBridge

\* The record of one call of processProjectUpdates; guarded tells that the
\* caller made it under isProjectUpdateType.
BridgeCallRecord(updateType, data, failure, loggerErrorThrows, guarded, id) ==
    LET out == processProjectUpdatesOutcome(updateType, data, failure, loggerErrorThrows, id)
    IN [updateType |-> updateType, data |-> data, failure |-> failure,
        loggerErrorThrows |-> loggerErrorThrows, guarded |-> guarded,
        returned |-> out.returned, thrown |-> out.thrown]

\* A call of processProjectUpdates(updateType, data, logger).
processProjectUpdates ==
    /\ nextId - FirstFreshId < MaxUpdates
    /\ \E updateType \in KindInputs, data \in Payloads, failure \in BridgeFailures,
          loggerErrorThrows \in BOOLEAN :
         /\ failure = "none" => ~loggerErrorThrows
         /\ bridgeCall' = << BridgeCallRecord(updateType, data, failure,
                                              loggerErrorThrows, FALSE, nextId) >>
         /\ nextId' = nextId + BridgeIdsTaken(failure)
    /\ lastCheck' = <<>>
    /\ UNCHANGED outsideBridge

\* Another event of the kind of the last call: processProjectUpdates is
\* called again with that kind and a payload of its own.
processProjectUpdatesAgain ==
    /\ nextId - FirstFreshId < MaxUpdates
    /\ Len(bridgeCall) = 1
    /\ \E data \in Payloads, failure \in BridgeFailures, loggerErrorThrows \in BOOLEAN :
         /\ failure = "none" => ~loggerErrorThrows
         /\ bridgeCall' = << BridgeCallRecord(bridgeCall[1].updateType, data, failure,
                                              loggerErrorThrows, FALSE, nextId),
                             bridgeCall[1] >>
         /\ nextId' = nextId + BridgeIdsTaken(failure)
    /\ lastCheck' = <<>>
    /\ UNCHANGED outsideBridge

\* A caller that keeps the contract: it asks isProjectUpdateType first and
\* calls processProjectUpdates for the kinds it accepts only.
handleProjectUpdate ==
    /\ nextId - FirstFreshId < MaxUpdates
    /\ \E type \in KindInputs, data \in Payloads, failure \in BridgeFailures,
          loggerErrorThrows \in BOOLEAN :
         /\ failure = "none" => ~loggerErrorThrows
         /\ lastCheck' = << [type |-> type, result |-> isProjectUpdateType(type)] >>
         /\ IF isProjectUpdateType(type)
            THEN /\ bridgeCall' = << BridgeCallRecord(type, data, failure,
                                                      loggerErrorThrows, TRUE, nextId) >>
                 /\ nextId' = nextId + BridgeIdsTaken(failure)
            ELSE bridgeCall' = <<>> /\ UNCHANGED nextId
    /\ UNCHANGED outsideBridge

InitBridge ==
    /\ TurnInit("hi", <<>>)
    /\ ConcurrentIdle
    /\ BridgeIdle
    /\ transcript = <<>>
    /\ DatabaseInit

NextBridge ==
    \/ isProjectUpdateTypeCall
    \/ processProjectUpdates
    \/ processProjectUpdatesAgain
    \/ handleProjectUpdate

SpecBridge == InitBridge /\ [][NextBridge]_vars

\* ------------------------------------------------- the caller's transcript

\* The caller keeps the conversation: it calls execute with the transcript as
\* pastMessages, keeps the messages a turn returns as the new transcript, and
\* between turns appends what processProjectUpdates returns for a milestone.
\* The engine of these turns streams and makes no tool calls: the tools of
\* this module never touch the messages.

\* The milestones that arrive between turns.
TranscriptKinds == { WebSocketMessageResponses.CODE_REVIEW }

\* No call of execute is running: the variables of a call hold nothing.
BetweenTurns ==
    /\ pc' = "between"
    /\ userMessage' = ""
    /\ pastMessages' = <<>>
    /\ messages' = <<>>
    /\ extractedUserResponse' = ""
    /\ extractedEnhancedRequest' = ""
    /\ aiConversationId' = 0
    /\ inferenceArgs' = <<>>
    /\ events' = <<>>
    /\ engineDeltas' = <<>>
    /\ currentCall' = <<>>
    /\ invocations' = <<>>
    /\ hookLog' = <<>>
    /\ raised' = <<>>
    /\ outcome' = "none"
    /\ output' = <<>>
    /\ thrown' = <<>>
    /\ messagesRef' = "none"
    /\ returnedRef' = "none"
    /\ pastAtEntry' = <<>>
    /\ rejectedCalls' = <<>>
    /\ mutatorCalls' = <<>>
    /\ toolResults' = <<>>

\* The caller calls execute({userMessage, pastMessages: transcript}, ...).
beginTurn ==
    /\ pc = "between"
    /\ Len(transcript) + 2 <= MaxTranscript
    /\ nextId - FirstFreshId < 2 * MaxTranscript
    /\ \E um \in UserMessages : userMessage' = um
    /\ pastMessages' = transcript
    /\ pastAtEntry' = transcript
    /\ pc' = "idle"
    /\ UNCHANGED << messages, extractedUserResponse, extractedEnhancedRequest,
                    aiConversationId, inferenceArgs, events, engineDeltas, currentCall,
                    invocations, hookLog, raised, outcome, output, thrown, messagesRef,
                    returnedRef, rejectedCalls, mutatorCalls, toolResults >>
    /\ UNCHANGED << nextId, transcript >>
    /\ UNCHANGED outsideCaller

\* The call of execute has ended: the caller keeps the messages it returned;
\* a call that threw returned none, and the transcript stays as it was.
endTurn ==
    /\ pc = "done"
    /\ transcript' = IF outcome = "thrown" THEN transcript ELSE output[1].messages
    /\ BetweenTurns
    /\ UNCHANGED nextId
    /\ UNCHANGED outsideCaller

\* A milestone arrives between turns: the caller appends the entries
\* processProjectUpdates returns; a call that throws gives it none.
pipelineEvent ==
    /\ pc = "between"
    /\ Len(transcript) + 1 <= MaxTranscript
    /\ \E updateType \in TranscriptKinds, data \in Payloads, failure \in BridgeFailures,
          loggerErrorThrows \in BOOLEAN :
         /\ failure = "none" => ~loggerErrorThrows
         /\ LET out == processProjectUpdatesOutcome(updateType, data, failure,
                                                    loggerErrorThrows, nextId)
            IN transcript' = transcript \o
                    (IF out.returned = <<>> THEN <<>> ELSE out.returned[1])
         /\ nextId' = nextId + BridgeIdsTaken(failure)
    /\ UNCHANGED turnLocals
    /\ UNCHANGED outsideCaller

InitTranscript ==
    /\ pc = "between"
    /\ userMessage = ""
    /\ pastMessages = <<>>
    /\ messages = <<>>
    /\ extractedUserResponse = ""
    /\ extractedEnhancedRequest = ""
    /\ aiConversationId = 0
    /\ nextId = FirstFreshId
    /\ inferenceArgs = <<>>
    /\ events = <<>>
    /\ engineDeltas = <<>>
    /\ currentCall = <<>>
    /\ invocations = <<>>
    /\ hookLog = <<>>
    /\ raised = <<>>
    /\ outcome = "none"
    /\ output = <<>>
    /\ thrown = <<>>
    /\ messagesRef = "none"
    /\ returnedRef = "none"
    /\ pastAtEntry = <<>>
    /\ rejectedCalls = <<>>
    /\ mutatorCalls = <<>>
    /\ toolResults = <<>>
    /\ ConcurrentIdle
    /\ BridgeIdle
    /\ transcript \in PastTranscripts
    /\ DatabaseInit

NextTranscript ==
    \/ beginTurn
    \/ execute
    \/ onChunk
    \/ executeInferenceReturns
    \/ executeInferenceThrows
    \/ endTurn
    \/ pipelineEvent

SpecTranscript == InitTranscript /\ [][NextTranscript]_vars

\* ------------------------------------------------------------ the app service

\* The worker serves requests concurrently: each statement a request awaits
\* is one step, and the steps of the requests interleave.  A statement either
\* has the effect the code gives it or is rejected by the database.

\* The request is between its first statement and its return.
Running(p) == procs[p].pc \notin {"idle", "done"}

\* The favorites key of a request.
FavoriteKey(p) == << procs[p].userId, procs[p].appId >>

\* A request begins on p: what it is, what the favorite status is, whether
\* it runs alone, and, for a toggle that follows at once p's own completed
\* toggle of the same favorite, the status that one started from.
Begin(p, op, call, first) ==
    LET alone == \A q \in Procs \ {p} : ~Running(q)
        key == << call.userId, call.appId >>
        chained == /\ op = "toggleFavorite"
                   /\ alone
                   /\ procs[p].chain # <<>>
                   /\ procs[p].chain[1].key = key
    IN /\ procs' = [q \in Procs |->
                       IF q = p
                       THEN [op |-> op, appId |-> call.appId, userId |-> call.userId,
                             pc |-> first, existing |-> FALSE,
                             statusAtStart |-> favorites[key] > 0, alone |-> alone,
                             chain |-> <<>>,
                             prev |-> IF chained THEN << procs[p].chain[1].status >> ELSE <<>>,
                             result |-> <<>>]
                       ELSE [procs[q] EXCEPT !.alone = FALSE, !.chain = <<>>]]
       /\ callsMade' = callsMade + 1

\* The request on p goes on to its next statement.
Goto(p, next) == procs' = [procs EXCEPT ![p].pc = next]

\* The request on p returns.
Return(p, result) == procs' = [procs EXCEPT ![p].pc = "done", ![p].result = << result >>]

\* A variant that compares nothing: every user owns every app that exists.
checkAppOwnership_AnyUser(appId, userId) ==
    IF apps[appId] = <<>>
    THEN [exists |-> FALSE, isOwner |-> FALSE]
    ELSE [exists |-> TRUE, isOwner |-> TRUE]

\* checkAppOwnership(appId, userId)
checkAppOwnership(appId, userId) ==
    IF apps[appId] = <<>>
    THEN [exists |-> FALSE, isOwner |-> FALSE]
    ELSE [exists |-> TRUE, isOwner |-> apps[appId][1].userId = userId]

\* deleteApp's two early returns: the error, or none.
deleteAppRejection(ownershipResult) ==
    IF ~ownershipResult.exists THEN << "App not found" >>
    ELSE IF ~ownershipResult.isOwner THEN << "You can only delete your own apps" >>
    ELSE <<>>

\* The rows of a table of <<userId, appId>> that are not of the app.
RowsNotOf(table, appId) == { row \in table : row[2] # appId }

\* A request calls deleteApp(appId, userId).
callDeleteApp(p) ==
    /\ ~Running(p)
    /\ callsMade < MaxCalls
    /\ \E call \in DeleteAppCalls : Begin(p, "deleteApp", call, "checkAppOwnership")
    /\ UNCHANGED tables
    /\ UNCHANGED outsideApps

\* const ownershipResult = await this.checkAppOwnership(appId, userId), and
\* the two early returns.
deleteAppOwnership(p) ==
    /\ procs[p].op = "deleteApp"
    /\ procs[p].pc = "checkAppOwnership"
    /\ LET rejection == deleteAppRejection(checkAppOwnership(procs[p].appId, procs[p].userId))
       IN IF rejection # <<>>
          THEN Return(p, [success |-> FALSE, error |-> rejection[1]])
          ELSE Goto(p, "deleteFavorites")
    /\ UNCHANGED << tables, callsMade >>
    /\ UNCHANGED outsideApps

\* delete(schema.favorites).where(eq(schema.favorites.appId, appId))
deleteAppFavorites(p) ==
    /\ procs[p].op = "deleteApp"
    /\ procs[p].pc = "deleteFavorites"
    /\ favorites' = [k \in DOMAIN favorites |->
                        IF k[2] = procs[p].appId THEN 0 ELSE favorites[k]]
    /\ Goto(p, "deleteStars")
    /\ UNCHANGED << apps, stars, appViews, callsMade >>
    /\ UNCHANGED outsideApps

\* delete(schema.stars).where(eq(schema.stars.appId, appId))
deleteAppStars(p) ==
    /\ procs[p].op = "deleteApp"
    /\ procs[p].pc = "deleteStars"
    /\ stars' = RowsNotOf(stars, procs[p].appId)
    /\ Goto(p, "deleteAppViews")
    /\ UNCHANGED << apps, favorites, appViews, callsMade >>
    /\ UNCHANGED outsideApps

\* delete(schema.appViews).where(eq(schema.appViews.appId, appId))
deleteAppViews(p) ==
    /\ procs[p].op = "deleteApp"
    /\ procs[p].pc = "deleteAppViews"
    /\ appViews' = RowsNotOf(appViews, procs[p].appId)
    /\ Goto(p, "detachForks")
    /\ UNCHANGED << apps, favorites, stars, callsMade >>
    /\ UNCHANGED outsideApps

\* update(schema.apps).set({parentAppId: null}).where(eq(schema.apps.parentAppId, appId))
deleteAppForks(p) ==
    /\ procs[p].op = "deleteApp"
    /\ procs[p].pc = "detachForks"
    /\ apps' = [a \in DOMAIN apps |->
                   IF apps[a] # <<>> /\ apps[a][1].parentAppId = procs[p].appId
                   THEN << [apps[a][1] EXCEPT !.parentAppId = "null"] >>
                   ELSE apps[a]]
    /\ Goto(p, "deleteAppRow")
    /\ UNCHANGED << favorites, stars, appViews, callsMade >>
    /\ UNCHANGED outsideApps

\* delete(schema.apps).where(and(eq(id, appId), eq(userId, userId))).returning(),
\* and the two returns after it.
deleteAppRow(p) ==
    /\ procs[p].op = "deleteApp"
    /\ procs[p].pc = "deleteAppRow"
    /\ LET appId == procs[p].appId
           deleted == apps[appId] # <<>> /\ apps[appId][1].userId = procs[p].userId
       IN /\ apps' = IF deleted THEN [apps EXCEPT ![appId] = <<>>] ELSE apps
          /\ IF deleted
             THEN Return(p, [success |-> TRUE, error |-> ""])
             ELSE Return(p, [success |-> FALSE,
                              error |-> "Failed to delete app - app may have been already deleted"])
    /\ UNCHANGED << favorites, stars, appViews, callsMade >>
    /\ UNCHANGED outsideApps

\* The statement deleteApp awaits is rejected: catch (error) logs and returns.
deleteAppCatch(p) ==
    /\ procs[p].op = "deleteApp"
    /\ Running(p)
    /\ Return(p, [success |-> FALSE, error |-> "An error occurred while deleting the app"])
    /\ UNCHANGED << tables, callsMade >>
    /\ UNCHANGED outsideApps

\* toggleAppFavorite's write: the rows of the favorite after it.  The delete
\* removes every row of the pair, the insert adds one.
toggleAppFavoriteRows(existing, rows) == IF existing THEN 0 ELSE rows + 1

\* return { isFavorite: false } / return { isFavorite: true }
toggleAppFavoriteResult(existing) == ~existing

\* A request reaches AppController.toggleFavorite.
callToggleFavorite(p) ==
    /\ ~Running(p)
    /\ callsMade < MaxCalls
    /\ \E call \in ToggleFavoriteCalls : Begin(p, "toggleFavorite", call, "checkAppOwnership")
    /\ UNCHANGED tables
    /\ UNCHANGED outsideApps

\* toggleFavorite: const ownershipResult = await appService.checkAppOwnership(...),
\* and the 404 for an app that does not exist.
toggleFavoriteOwnership(p) ==
    /\ procs[p].op = "toggleFavorite"
    /\ procs[p].pc = "checkAppOwnership"
    /\ IF ~checkAppOwnership(procs[p].appId, procs[p].userId).exists
       THEN Return(p, [status |-> 404])
       ELSE Goto(p, "selectFavorite")
    /\ UNCHANGED << tables, callsMade >>
    /\ UNCHANGED outsideApps

\* toggleAppFavorite: const existingFavorite = await select().from(favorites)...
toggleAppFavoriteSelect(p) ==
    /\ procs[p].op = "toggleFavorite"
    /\ procs[p].pc = "selectFavorite"
    /\ procs' = [procs EXCEPT ![p].pc = "writeFavorite",
                              ![p].existing = favorites[FavoriteKey(p)] > 0]
    /\ UNCHANGED << tables, callsMade >>
    /\ UNCHANGED outsideApps

\* toggleAppFavorite: the delete or the insert, and the return; toggleFavorite
\* answers with the result.
toggleAppFavoriteWrite(p) ==
    /\ procs[p].op = "toggleFavorite"
    /\ procs[p].pc = "writeFavorite"
    /\ favorites' = [favorites EXCEPT ![FavoriteKey(p)] =
                         toggleAppFavoriteRows(procs[p].existing, favorites[FavoriteKey(p)])]
    /\ procs' = [procs EXCEPT
                    ![p].pc = "done",
                    ![p].result = << [status |-> 200,
                                      isFavorite |-> toggleAppFavoriteResult(procs[p].existing),
                                      rowExists |-> favorites'[FavoriteKey(p)] > 0] >>,
                    ![p].chain = IF procs[p].alone
                                 THEN << [key |-> FavoriteKey(p),
                                          status |-> procs[p].statusAtStart] >>
                                 ELSE <<>>]
    /\ UNCHANGED << apps, stars, appViews, callsMade >>
    /\ UNCHANGED outsideApps

\* The statement toggleFavorite awaits is rejected: its catch answers 500.
toggleFavoriteCatch(p) ==
    /\ procs[p].op = "toggleFavorite"
    /\ Running(p)
    /\ Return(p, [status |-> 500])
    /\ UNCHANGED << tables, callsMade >>
    /\ UNCHANGED outsideApps

InitApps ==
    /\ TurnInit("hi", <<>>)
    /\ ConcurrentIdle
    /\ BridgeIdle
    /\ transcript = <<>>
    /\ DatabaseInit

NextApps ==
    \E p \in Procs :
        \/ callDeleteApp(p)
        \/ deleteAppOwnership(p)
        \/ deleteAppFavorites(p)
        \/ deleteAppStars(p)
        \/ deleteAppViews(p)
        \/ deleteAppForks(p)
        \/ deleteAppRow(p)
        \/ deleteAppCatch(p)
        \/ callToggleFavorite(p)
        \/ toggleFavoriteOwnership(p)
        \/ toggleAppFavoriteSelect(p)
        \/ toggleAppFavoriteWrite(p)
        \/ toggleFavoriteCatch(p)

SpecApps == InitApps /\ [][NextApps]_vars

\* ------------------------------------------------------------- properties

\* execute returned a Turn Output (on either path).
Returned == outcome \in {"success", "fallback"}

\* The text of the streaming calls of the callback, concatenated in order.
StreamedText ==
    Concat([i \in DOMAIN SelectSeq(events, LAMBDA e : e.isStreaming) |->
               SelectSeq(events, LAMBDA e : e.isStreaming)[i].message])

\* The calls of the callback that are not streaming calls.
ToolNotifications == SelectSeq(events, LAMBDA e : ~e.isStreaming)

\* The queue_request invocations of the turn.
QueueInvocations == SelectSeq(invocations, LAMBDA v : v.name = "queue_request")

\* The entries of a transcript with role tool.
ToolEntries(ms) == SelectSeq(ms, LAMBDA m : m.role = "tool")

\* C1: whenever execute returns a Turn Output, on the success or the
\* fallback path, the returned messages are two more than pastMessages,
\* however many chunks and tool calls the turn had.
C1_LengthPlusTwo ==
    Returned => Len(output[1].messages) = Len(pastMessages) + 2

C1_Witness ==
    /\ outcome = "success"
    /\ Len(invocations) >= 2
    /\ Len(engineDeltas) >= 2

\* C2: the returned messages are pastMessages, unchanged and in order, then
\* one user entry holding userMessage, then one assistant entry; no entry of
\* role tool is added.
C2_PastThenUserThenAssistant ==
    Returned =>
        LET m == output[1].messages
            n == Len(pastMessages)
        IN /\ Len(m) = n + 2
           /\ SubSeq(m, 1, n) = pastMessages
           /\ m[n + 1].role = "user"
           /\ m[n + 1].content = userMessage
           /\ m[n + 2].role = "assistant"
           /\ ToolEntries(m) = ToolEntries(pastMessages)

C2_Witness ==
    /\ outcome = "success"
    /\ pastMessages # <<>>
    /\ Len(invocations) >= 1

\* C3 as stated: in every turn in which execute returns a Turn Output, the
\* concatenation of the streamed chunks equals userResponse.
C3_StreamEqualsResponseOnEveryReturn ==
    Returned => StreamedText = output[1].conversationResponse.userResponse

\* C3, amended: in every turn that completes normally (no error was raised,
\* the success path), the concatenation, in delivery order, of the chunk
\* texts of the streaming calls of the callback equals userResponse.
C3_StreamEqualsResponseOnSuccess ==
    outcome = "success" =>
        StreamedText = output[1].conversationResponse.userResponse

C3_Witness ==
    /\ outcome = "success"
    /\ Len(engineDeltas) >= 2
    /\ engineDeltas[1] # engineDeltas[2]
    /\ Len(ToolNotifications) >= 2

\* C4: on normal completion the content of the appended assistant entry (the
\* engine's final completion text) equals userResponse (the concatenation of
\* the streamed deltas).
C4_AssistantEntryEqualsResponse ==
    outcome = "success" =>
        output[1].messages[Len(output[1].messages)].content
            = output[1].conversationResponse.userResponse

C4_Witness ==
    /\ outcome = "success"
    /\ Len(engineDeltas) >= 2
    /\ Len(QueueInvocations) >= 1

\* C5: on normal completion enhancedUserRequest is the empty string when
\* queue_request was never invoked in the turn, and otherwise the
\* modificationRequest of its last invocation.
C5_LastRequestWins ==
    outcome = "success" =>
        output[1].conversationResponse.enhancedUserRequest =
            IF QueueInvocations = <<>> THEN ""
            ELSE QueueInvocations[Len(QueueInvocations)].args.modificationRequest

C5_Witness ==
    /\ outcome = "success"
    /\ Len(QueueInvocations) >= 2
    /\ QueueInvocations[1].args # QueueInvocations[Len(QueueInvocations)].args

\* C6: a RateLimitExceededError or SecurityError raised during the turn is
\* thrown again by execute, the same error, and nothing is returned.
C6_FatalRethrown ==
    (raised # <<>> /\ raised[1].class \in FatalErrors) =>
        /\ outcome = "thrown"
        /\ thrown = << raised[1].class >>
        /\ output = <<>>

C6_Witness ==
    /\ raised # <<>>
    /\ raised[1].class = "SecurityError"
    /\ raised[1].step = "tool"
    /\ extractedUserResponse # ""

\* C7: any other error gives the deterministic fallback, a function of
\* userMessage and pastMessages alone: enhancedUserRequest is "User request: "
\* followed by userMessage, userResponse is the fixed text, and messages are
\* pastMessages, a user entry for userMessage and an assistant entry holding
\* the fixed text.
C7_DeterministicFallback ==
    (raised # <<>> /\ raised[1].class \notin FatalErrors) =>
        /\ outcome = "fallback"
        /\ output # <<>>
        /\ output[1].conversationResponse =
              [enhancedUserRequest |-> "User request: " \o userMessage,
               userResponse |-> FALLBACK_USER_RESPONSE]
        /\ LET m == output[1].messages
               n == Len(pastMessages)
           IN /\ Len(m) = n + 2
              /\ SubSeq(m, 1, n) = pastMessages
              /\ [role |-> m[n + 1].role, content |-> m[n + 1].content]
                    = [role |-> "user", content |-> userMessage]
              /\ [role |-> m[n + 2].role, content |-> m[n + 2].content]
                    = [role |-> "assistant", content |-> FALLBACK_USER_RESPONSE]

C7_Witness ==
    /\ outcome = "fallback"
    /\ extractedUserResponse # ""
    /\ extractedEnhancedRequest # ""

\* C8: a finished turn has exactly one of three outcomes, decided by whether
\* an error was raised and by its class alone, whatever step raised it: a
\* success output (no error), the fallback output (a non-fatal error) or the
\* fatal error thrown again; the caller gets no non-fatal error and no
\* transcript other than pastMessages plus two entries.
C8_OutcomeByErrorClass ==
    /\ pc = "done" <=> outcome # "none"
    /\ pc = "done" =>
          /\ outcome = "success" <=> raised = <<>>
          /\ outcome = "fallback" <=> (raised # <<>> /\ raised[1].class \notin FatalErrors)
          /\ outcome = "thrown" <=> (raised # <<>> /\ raised[1].class \in FatalErrors)
          /\ (outcome = "thrown") <=> (thrown # <<>>)
          /\ (outcome \in {"success", "fallback"}) <=> (output # <<>>)
          /\ \A i \in DOMAIN thrown : thrown[i] \in FatalErrors
          /\ \A i \in DOMAIN output :
                Len(output[i].messages) = Len(pastMessages) + 2
    /\ pc # "done" => (output = <<>> /\ thrown = <<>>)

C8_Witness ==
    /\ pc = "done"
    /\ raised # <<>>
    /\ raised[1].step = "callback"
    /\ raised[1].class = "Error"
    /\ Len(invocations) >= 1

\* C9: every call of the callback in the turn, streaming chunk or tool
\* notification, carries the one conversation identifier generated for the
\* turn.
C9_OneConversationId ==
    \A i \in DOMAIN events :
        /\ aiConversationId # 0
        /\ events[i].conversationId = aiConversationId

C9_Witness ==
    /\ \E i \in DOMAIN events : events[i].isStreaming
    /\ \E i \in DOMAIN events : ~events[i].isStreaming /\ events[i].tool[1].status = "start"
    /\ \E i \in DOMAIN events : ~events[i].isStreaming /\ events[i].tool[1].status = "success"

\* C10: each onStart the engine calls makes exactly one notification, with
\* empty text, isStreaming false and the tool event {the tool's name, start,
\* the call's arguments}; each onComplete exactly one with status success;
\* and a streaming notification carries no tool event.
C10_HookNotifications ==
    /\ Len(ToolNotifications) = Len(hookLog)
    /\ \A i \in DOMAIN hookLog :
          ToolNotifications[i] =
              [message |-> "", conversationId |-> ToolNotifications[i].conversationId,
               isStreaming |-> FALSE,
               tool |-> << [name |-> hookLog[i].name,
                            status |-> IF hookLog[i].hook = "onStart" THEN "start" ELSE "success",
                            args |-> hookLog[i].args] >>]
    /\ \A i \in DOMAIN events : events[i].isStreaming => events[i].tool = <<>>

C10_Witness ==
    /\ \E i \in DOMAIN hookLog :
          hookLog[i].hook = "onComplete" /\ hookLog[i].name = "queue_request"
    /\ \E i \in DOMAIN hookLog :
          hookLog[i].hook = "onComplete" /\ hookLog[i].name = "web_search"
    /\ \E i \in DOMAIN events : events[i].isStreaming

\* The texts of the streaming calls of the callback, in delivery order.
StreamedChunks ==
    [i \in DOMAIN SelectSeq(events, LAMBDA e : e.isStreaming) |->
        SelectSeq(events, LAMBDA e : e.isStreaming)[i].message]

\* C11: the streamed deltas reach the callback in the order the engine
\* produced them, none dropped, duplicated or changed, and the tool
\* notifications reach it in the order of the engine's hook calls; the two
\* kinds may interleave in any way.
C11_DeliveryOrder ==
    /\ StreamedChunks = engineDeltas
    /\ [i \in DOMAIN ToolNotifications |->
            << ToolNotifications[i].tool[1].name, ToolNotifications[i].tool[1].args >>]
         = [i \in DOMAIN hookLog |-> << hookLog[i].name, hookLog[i].args >>]

C11_Witness ==
    /\ Len(engineDeltas) >= 2
    /\ engineDeltas[1] # engineDeltas[2]
    /\ Len(hookLog) >= 4
    /\ hookLog[1].name # hookLog[3].name
    /\ Len(events) >= 6
    /\ events[1].isStreaming
    /\ ~events[2].isStreaming
    /\ events[Len(events)].isStreaming

\* C13: execute never changes the caller's pastMessages: at every point of
\* the turn, and after it ends by success, fallback or a thrown error, the
\* caller's array holds the entries it held at the call, in the same order;
\* and the messages returned are an array of their own.
C13_PastMessagesUntouched ==
    /\ pastMessages = pastAtEntry
    /\ messagesRef # "caller"
    /\ returnedRef # "caller"
    /\ Returned => returnedRef \in {"copy", "literal"}

C13_Witness ==
    /\ outcome = "success"
    /\ pastAtEntry # <<>>
    /\ returnedRef = "copy"
    /\ Len(output[1].messages) = Len(pastAtEntry) + 2

\* The results the queue_request invocations returned.
QueueResults == SelectSeq(toolResults, LAMBDA r : r.name = "queue_request")

\* C14: a queue_request call whose modificationRequest is shorter than 8
\* characters is refused before the implementation runs: no invocation has
\* such an argument, the captured request never is such a value, and no
\* success output carries one as enhancedUserRequest.
C14_ShortRequestNeverCaptured ==
    /\ \A i \in DOMAIN QueueInvocations :
          Len(QueueInvocations[i].args.modificationRequest) >= 8
    /\ \A i \in DOMAIN mutatorCalls : Len(mutatorCalls[i]) >= 8
    /\ extractedEnhancedRequest = "" \/ Len(extractedEnhancedRequest) >= 8
    /\ outcome = "success" =>
          LET r == output[1].conversationResponse.enhancedUserRequest
          IN r = "" \/ Len(r) >= 8

C14_Witness ==
    /\ outcome = "success"
    /\ \E i \in DOMAIN rejectedCalls :
          /\ rejectedCalls[i].name = "queue_request"
          /\ Len(rejectedCalls[i].args.modificationRequest) < 8
    /\ Len(QueueInvocations) >= 1

\* C15: every invocation of the queue_request implementation calls the state
\* mutator exactly once, with the modificationRequest it was given, and
\* returns the same fixed acknowledgment.
C15_OneMutatorCallPerInvocation ==
    /\ mutatorCalls =
          [i \in DOMAIN QueueInvocations |-> QueueInvocations[i].args.modificationRequest]
    /\ Len(QueueResults) = Len(QueueInvocations)
    /\ \A i \in DOMAIN QueueResults :
          QueueResults[i].result =
              [content |-> "Modification request queued successfully, will be implemented in the next phase of development."]

C15_Witness ==
    /\ Len(QueueInvocations) >= 2
    /\ Len(QueueResults) >= 2
    /\ QueueInvocations[1].args # QueueInvocations[2].args
    /\ extractedEnhancedRequest = QueueInvocations[2].args.modificationRequest

\* C17: in a successful turn, with a generator that never repeats a value,
\* the turn's streaming identifier differs from every conversationId of
\* pastMessages, from that of the new user entry and from that of the new
\* assistant entry, which has an identifier of its own.
C17_StreamingIdIsFresh ==
    outcome = "success" =>
        LET m == output[1].messages
            n == Len(pastMessages)
        IN /\ \A i \in 1..n : m[i].conversationId # aiConversationId
           /\ m[n + 1].conversationId # aiConversationId
           /\ m[n + 2].conversationId # aiConversationId
           /\ m[n + 2].conversationId # m[n + 1].conversationId
           /\ \A i \in 1..n : m[i].conversationId \notin
                 {m[n + 1].conversationId, m[n + 2].conversationId}

C17_Witness ==
    /\ outcome = "success"
    /\ pastMessages # <<>>
    /\ Len(events) >= 2
    /\ aiConversationId # 0

\* C12: with calls of execute interleaved in any way, what each call returns
\* is decided by its own chunks and its own queue_request invocations alone:
\* userResponse is the concatenation of its chunks and enhancedUserRequest
\* its last request, or empty if it made none.
C12_TurnsDoNotInterfere ==
    \A t \in ConcurrentTurns :
        turns[t].pc = "done" =>
            /\ turns[t].response[1].userResponse = Concat(turns[t].chunks)
            /\ turns[t].response[1].enhancedUserRequest =
                  IF turns[t].requests = <<>> THEN ""
                  ELSE turns[t].requests[Len(turns[t].requests)]

\* Both calls were in flight together, each streamed and captured between
\* the other's steps, and both returned.
C12_Witness ==
    /\ \A t \in ConcurrentTurns : turns[t].pc = "done"
    /\ turns[1].chunks # <<>> /\ turns[2].chunks # <<>>
    /\ turns[1].chunks # turns[2].chunks
    /\ turns[1].requests # <<>> /\ turns[2].requests # <<>>
    /\ turns[1].requests[Len(turns[1].requests)] # turns[2].requests[Len(turns[2].requests)]

\* The seven milestone kinds.
MilestoneKinds ==
    { WebSocketMessageResponses.PHASE_IMPLEMENTING,
      WebSocketMessageResponses.PHASE_IMPLEMENTED,
      WebSocketMessageResponses.CODE_REVIEW,
      WebSocketMessageResponses.FILE_REGENERATING,
      WebSocketMessageResponses.FILE_REGENERATED,
      WebSocketMessageResponses.DEPLOYMENT_COMPLETED,
      WebSocketMessageResponses.COMMAND_EXECUTING }

\* part occurs in text as a contiguous run of characters.
Contains(text, part) ==
    \E i \in 1..(Len(text) - Len(part) + 1) : SubSeq(text, i, i + Len(part) - 1) = part

\* C18: isProjectUpdateType(kind) is true exactly when kind is one of the
\* seven milestone kinds, whatever value it is called with.
C18_TrueIffMilestone ==
    lastCheck # <<>> =>
        (lastCheck[1].result <=> lastCheck[1].type \in MilestoneKinds)

C18_Witness ==
    /\ lastCheck # <<>>
    /\ lastCheck[1].type = WebSocketMessageResponses.PHASE_IMPLEMENTING
    /\ lastCheck[1].result

\* C19: called with a milestone kind and any payload, and none of its steps
\* failing, processProjectUpdates returns a sequence of exactly one entry,
\* whose role is assistant and whose content contains the name of the kind.
C19_OneAssistantMemo ==
    (/\ bridgeCall # <<>>
     /\ bridgeCall[1].updateType \in MilestoneKinds
     /\ bridgeCall[1].failure = "none")
    => /\ bridgeCall[1].thrown = <<>>
       /\ Len(bridgeCall[1].returned) = 1
       /\ LET entries == bridgeCall[1].returned[1]
          IN /\ Len(entries) = 1
             /\ entries[1].role = "assistant"
             /\ Contains(entries[1].content, bridgeCall[1].updateType)

C19_Witness ==
    /\ bridgeCall # <<>>
    /\ bridgeCall[1].updateType = WebSocketMessageResponses.CODE_REVIEW
    /\ bridgeCall[1].data = "{phase: 2, files: [secret.ts]}"
    /\ bridgeCall[1].failure = "none"
    /\ Len(bridgeCall[1].returned) = 1
    /\ Len(bridgeCall[1].returned[1]) = 1

\* C20: processProjectUpdates never throws to its caller; a step of its
\* processing having failed (logging and identifier generation included), it
\* returns the empty sequence.
C20_NeverThrows ==
    bridgeCall # <<>> =>
        /\ bridgeCall[1].thrown = <<>>
        /\ bridgeCall[1].failure # "none" => bridgeCall[1].returned = << <<>> >>

\* earlier is the beginning of later: the same entries in the same places.
IsPrefix(earlier, later) ==
    /\ Len(earlier) <= Len(later)
    /\ SubSeq(later, 1, Len(earlier)) = earlier

\* C16: over successful turns, fallback turns and pipeline events, each step
\* leaves the transcript it found as a prefix of the transcript it leaves: the
\* entries already there keep their places and their contents.
C16_TranscriptAppendOnly == [][IsPrefix(transcript, transcript')]_vars

C16_Witness ==
    /\ pc = "between"
    /\ Len(transcript) = 5
    /\ transcript[2].content = "Sure. "
    /\ transcript[3].content = PreparedMessage(WebSocketMessageResponses.CODE_REVIEW)
    /\ transcript[4].role = "user"
    /\ transcript[5].content = FALLBACK_USER_RESPONSE

\* The streaming calls of the callback, in delivery order.
StreamingCalls == SelectSeq(events, LAMBDA e : e.isStreaming)

\* C21: when a turn completes normally, the streaming calls of the callback
\* are as many as the deltas the engine produced, the i-th carrying the i-th
\* delta unchanged with isStreaming true and the turn's identifier, and
\* userResponse is those deltas concatenated in order: the empty text when
\* there was none.
C21_EachDeltaForwardedOnce ==
    outcome = "success" =>
        /\ Len(StreamingCalls) = Len(engineDeltas)
        /\ \A i \in DOMAIN engineDeltas :
              /\ StreamingCalls[i].message = engineDeltas[i]
              /\ StreamingCalls[i].isStreaming
              /\ StreamingCalls[i].conversationId = aiConversationId
              /\ StreamingCalls[i].tool = <<>>
        /\ output[1].conversationResponse.userResponse = Concat(engineDeltas)
        /\ engineDeltas = <<>> => output[1].conversationResponse.userResponse = ""

C21_Witness ==
    /\ outcome = "success"
    /\ Len(engineDeltas) = 2
    /\ engineDeltas[1] # engineDeltas[2]
    /\ Len(ToolNotifications) >= 2

\* The tool notifications with the given status.
NotificationsWithStatus(status) ==
    SelectSeq(ToolNotifications, LAMBDA e : e.tool[1].status = status)

\* C22: every tool event the callback receives has status start or success,
\* never error, in every turn; and when a tool's implementation throws, the
\* last tool event is the start of that invocation and no success follows
\* it: the starts are one more than the successes.
C22_NoErrorStatus ==
    /\ \A i \in DOMAIN ToolNotifications :
          /\ Len(ToolNotifications[i].tool) = 1
          /\ ToolNotifications[i].tool[1].status \in {"start", "success"}
    /\ (raised # <<>> /\ raised[1].step = "tool") =>
          LET last == ToolNotifications[Len(ToolNotifications)].tool[1]
              thrower == invocations[Len(invocations)]
          IN /\ last.status = "start"
             /\ last.name = thrower.name
             /\ last.args = thrower.args
             /\ Len(NotificationsWithStatus("start"))
                  = Len(NotificationsWithStatus("success")) + 1

C22_Witness ==
    /\ outcome = "fallback"
    /\ raised[1].step = "tool"
    /\ Len(NotificationsWithStatus("success")) = 1
    /\ Len(NotificationsWithStatus("start")) = 2

\* The system preamble of the turn.
Preamble == getSystemPromptWithProjectContext(SYSTEM_PROMPT, ProjectContext)

\* C23: the message list of the engine call is the system preamble, then
\* pastMessages, then the new user entry, in that order; and the messages
\* execute returns, on the success and on the fallback path, hold no entry of
\* the preamble.
C23_PreambleSentNotSaved ==
    /\ \A i \in DOMAIN inferenceArgs :
          LET sent == inferenceArgs[i].messages
          IN /\ Len(sent) = Len(Preamble) + Len(pastAtEntry) + 1
             /\ SubSeq(sent, 1, Len(Preamble)) = Preamble
             /\ SubSeq(sent, Len(Preamble) + 1, Len(sent) - 1) = pastAtEntry
             /\ sent[Len(sent)].role = "user"
             /\ sent[Len(sent)].content = userMessage
    /\ Returned =>
          \A j \in DOMAIN output[1].messages :
              /\ output[1].messages[j].role # "system"
              /\ \A k \in DOMAIN Preamble :
                    output[1].messages[j].content # Preamble[k].content

C23_Witness ==
    /\ outcome = "fallback"
    /\ Len(inferenceArgs) = 1
    /\ pastAtEntry # <<>>
    /\ engineDeltas # <<>>

\* C24: a turn calls the engine at most once; when the engine call fails the
\* turn is over at once, with the fallback output or the fatal error
\* re-thrown, and the engine has been called that one time only.
C24_OneEngineCall ==
    /\ Len(inferenceArgs) <= 1
    /\ pc \in {"inference", "toolStarted", "toolExecuted"} => Len(inferenceArgs) = 1
    /\ (raised # <<>> /\ raised[1].step = "engine") =>
          /\ Len(inferenceArgs) = 1
          /\ pc = "done"
          /\ IF IsFatal(raised[1].class)
             THEN outcome = "thrown" /\ thrown = << raised[1].class >>
             ELSE outcome = "fallback" /\ output = << FallbackOutput(nextId - 2) >>

C24_Witness ==
    /\ raised # <<>>
    /\ raised[1].step = "engine"
    /\ outcome = "fallback"
    /\ Len(inferenceArgs) = 1
    /\ engineDeltas # <<>>

\* The tool definitions of the turn before they are wrapped.
OriginalTools == << toolWebSearchDefinition, toolWeatherDefinition, buildEditAppTool >>

\* C25: a wrapped tool is the original with the two hooks added: its name,
\* description, parameter schema and implementation are the original's, so
\* the invocation the engine runs is the original's implementation with the
\* original's result; and each of the three tools given to the engine is
\* wrapped.
C25_WrapperAddsHooksOnly ==
    /\ \A i \in DOMAIN OriginalTools :
          LET td == OriginalTools[i]
              wrapped == attachLifecycle(td)
          IN /\ DOMAIN wrapped = DOMAIN td \cup {"onStart", "onComplete"}
             /\ [f \in DOMAIN td |-> wrapped[f]] = td
             /\ wrapped.onStart /\ wrapped.onComplete
    /\ \A c \in DOMAIN inferenceArgs :
          /\ Len(inferenceArgs[c].tools) = Len(OriginalTools)
          /\ \A i \in DOMAIN OriginalTools :
                /\ inferenceArgs[c].tools[i] = attachLifecycle(OriginalTools[i])
                /\ inferenceArgs[c].tools[i].onStart
                /\ inferenceArgs[c].tools[i].onComplete
    /\ currentCall # <<>> =>
          \E i \in DOMAIN OriginalTools :
              /\ currentCall[1].tool.name = OriginalTools[i].name
              /\ currentCall[1].tool.implementation = OriginalTools[i].implementation
              /\ currentCall[1].tool.parameters = OriginalTools[i].parameters
    /\ \A i \in DOMAIN QueueResults : QueueResults[i].result = EditAppResult

C25_Witness ==
    /\ pc = "toolExecuted"
    /\ currentCall[1].tool.name = "queue_request"
    /\ Len(inferenceArgs) = 1
    /\ Len(toolResults) = 2
    /\ toolResults[1].name = "web_search"

\* The entries a call of processProjectUpdates returned: none when it threw.
ReturnedEntries(call) == IF call.returned = <<>> THEN <<>> ELSE call.returned[1]

\* C26: two calls of processProjectUpdates for the same kind return entries
\* with the same role and the same content, whatever their payloads; and no
\* entry's content holds a payload.
C26_PayloadNeverInEntry ==
    /\ Len(bridgeCall) = 2 =>
          LET first == ReturnedEntries(bridgeCall[2])
              second == ReturnedEntries(bridgeCall[1])
          IN (first # <<>> /\ second # <<>>) =>
                /\ Len(first) = Len(second)
                /\ \A i \in DOMAIN first :
                      /\ first[i].role = second[i].role
                      /\ first[i].content = second[i].content
    /\ \A c \in DOMAIN bridgeCall :
          \A i \in DOMAIN ReturnedEntries(bridgeCall[c]) :
              \A data \in Payloads :
                  ~Contains(ReturnedEntries(bridgeCall[c])[i].content, data)

C26_Witness ==
    /\ Len(bridgeCall) = 2
    /\ bridgeCall[1].updateType = bridgeCall[2].updateType
    /\ bridgeCall[1].data # bridgeCall[2].data
    /\ ReturnedEntries(bridgeCall[1]) # <<>>
    /\ ReturnedEntries(bridgeCall[2]) # <<>>

\* C27, as first stated: called with a kind outside the allow-list, and no
\* step failing, processProjectUpdates returns the empty sequence.
C27_EmptyForOtherKinds ==
    \A c \in DOMAIN bridgeCall :
        (~isProjectUpdateType(bridgeCall[c].updateType) /\ bridgeCall[c].failure = "none")
        => bridgeCall[c].returned = << <<>> >>

\* C27: processProjectUpdates does not look at the kind: no step failing, it
\* returns one assistant memo naming the kind it was given, allow-listed or
\* not; the calls a caller makes under isProjectUpdateType are for
\* allow-listed kinds only.
C27_MemoForEveryKindUnlessGuarded ==
    \A c \in DOMAIN bridgeCall :
        /\ bridgeCall[c].failure = "none" =>
              /\ Len(ReturnedEntries(bridgeCall[c])) = 1
              /\ ReturnedEntries(bridgeCall[c])[1].role = "assistant"
              /\ ReturnedEntries(bridgeCall[c])[1].content
                    = PreparedMessage(bridgeCall[c].updateType)
        /\ bridgeCall[c].guarded => bridgeCall[c].updateType \in MilestoneKinds

C27_Witness ==
    /\ bridgeCall # <<>>
    /\ bridgeCall[1].updateType = WebSocketMessageResponses.GENERATION_STARTED
    /\ ~bridgeCall[1].guarded
    /\ bridgeCall[1].failure = "none"
    /\ Len(ReturnedEntries(bridgeCall[1])) = 1

\* The caller of deleteApp does not own the app, or the app never existed.
NotEntitled(call) ==
    \/ InitialApps[call.appId] = <<>>
    \/ InitialApps[call.appId][1].userId # call.userId

\* C28: a deleteApp call by a user who does not own the app, or for an app
\* id without a row, makes no step that changes a table and never gets past
\* the ownership check; it returns success false, with the error "App not
\* found" when the app has no row and "You can only delete your own apps"
\* when it has one, the ownership query having answered.
C28_RejectedDeleteChangesNothing ==
    [][\A p \in Procs :
          (/\ procs'[p] # procs[p]
           /\ procs'[p].op = "deleteApp"
           /\ NotEntitled(procs'[p]))
          => /\ UNCHANGED tables
             /\ procs'[p].pc \in {"checkAppOwnership", "done"}
             /\ procs'[p].pc = "done" =>
                   /\ ~procs'[p].result[1].success
                   /\ procs'[p].result[1].error \in
                         { IF apps[procs'[p].appId] = <<>> THEN "App not found"
                           ELSE "You can only delete your own apps",
                           "An error occurred while deleting the app" }]_vars

C28_Witness ==
    /\ procs[1].op = "deleteApp" /\ procs[1].pc = "done"
    /\ procs[1].result[1].error = "You can only delete your own apps"
    /\ procs[2].op = "deleteApp" /\ procs[2].pc = "done"
    /\ procs[2].result[1].error = "App not found"
    /\ tables = << InitialApps, InitialFavorites, InitialStars, InitialAppViews >>

\* The users whose favorites no request toggles.
Bystanders == Users \ { call.userId : call \in ToggleFavoriteCalls }

\* The rows of a table of <<userId, appId>> that are of the app.
RowsOf(table, appId) == { row \in table : row[2] = appId }

\* The apps that were forks of the app.
ForksOf(appId) ==
    { f \in AppIds : InitialApps[f] # <<>> /\ InitialApps[f][1].parentAppId = appId }

\* The app has its row, its stars and views and the favorites nobody toggles,
\* and its forks point to it.
AppIntact(appId) ==
    /\ apps[appId] # <<>>
    /\ \A u \in Bystanders : favorites[<< u, appId >>] = InitialFavorites[<< u, appId >>]
    /\ RowsOf(stars, appId) = RowsOf(InitialStars, appId)
    /\ RowsOf(appViews, appId) = RowsOf(InitialAppViews, appId)
    /\ \A f \in ForksOf(appId) : apps[f] # <<>> /\ apps[f][1].parentAppId = appId

\* The app has no row, nothing refers to it, and its forks stand alone.
AppGone(appId) ==
    /\ apps[appId] = <<>>
    /\ \A u \in Users : favorites[<< u, appId >>] = 0
    /\ RowsOf(stars, appId) = {}
    /\ RowsOf(appViews, appId) = {}
    /\ \A f \in ForksOf(appId) : apps[f] # <<>> /\ apps[f][1].parentAppId = "null"

\* C29: once a deleteApp call has returned, and no other deleteApp being in
\* progress, the app is either intact or gone with all that referred to it;
\* and the call returned success true only if it is gone.
C29_DeleteAllOrNothing ==
    \A p \in Procs :
        (/\ procs[p].op = "deleteApp"
         /\ procs[p].pc = "done"
         /\ \A q \in Procs : ~(procs[q].op = "deleteApp" /\ Running(q)))
        => /\ AppIntact(procs[p].appId) \/ AppGone(procs[p].appId)
           /\ procs[p].result[1].success => AppGone(procs[p].appId)

====
